---------------------------- MODULE Spec2Model ----------------------------
(***************************************************************************)
(* A model of playlistify-api: the VibeChainAPI server (model handle,      *)
(* /health, /model/info, /analyze) and the CSVTrainer training pipeline.    *)
(* Numbers of the request schema are fixed-point: Unit stands for 1.0.      *)
(***************************************************************************)
EXTENDS Integers, Sequences, FiniteSets, TLC

(***************************************************************************)
(* Bounds of the model.                                                    *)
(***************************************************************************)
MaxLoads == 2
MaxReqs == 2
MaxCorpus == 4
MaxBatch == 3
MaxAbsent == 2

(***************************************************************************)
(* Program constants.                                                      *)
(***************************************************************************)
Unit == 1000
MinTracks == 1
MaxTracks == 100

NoModel == 0
OutputDim == 3
EmbeddingLen == 10
ConfidenceMood == 850
ConfidenceNextTrack == 800

Fields ==
  << "danceability", "energy", "key", "loudness", "mode", "speechiness",
     "acousticness", "instrumentalness", "liveness", "valence", "tempo",
     "duration_ms", "time_signature", "hour_of_day", "day_of_week", "month",
     "is_weekend", "skip_rate", "repeat_count", "playlist_position" >>

FieldSet == { Fields[i] : i \in 1..Len(Fields) }

VARIABLES
  \* ---- VibeChainAPI (src/unnamed/part_000) ----
  model,        \* this.model: NoModel (null) or the id of a SimpleSpotifyModel instance
  loadedInsts,  \* the instances whose loadModel(path) completed
  nextInst,     \* instances created so far
  loadCall,     \* the loadModel call: [pc, before, inst]
  listening,    \* app.listen has been called
  alive,        \* the process has not exited
  forwards,     \* the express build forwards a rejected handler promise to next(err)
  reqs,         \* the /analyze requests, by id
  probe,        \* the last answer of GET /health or GET /model/info, and whether
                \* a loadModel call was in flight when it was given
  everLoaded,   \* some loadModel call completed successfully
  modelFile,    \* the weights persisted at the model path, which loadModel restores
  tensorHeap,   \* the tensors of the tf engine, by id
  \* ---- CSVTrainer (src/src/utils/validation.ts, second half) ----
  sessions,         \* what csvLoader.createListeningSessions returns
  validationSplit,  \* config.validationSplit, in tenths
  tpc,              \* the position of train()
  examples,         \* allInputs / allLabels
  tensors,          \* the tensors of prepareTrainingData: none | live | disposed
  trainData,        \* rows of trainInputs / trainLabels
  validationData,   \* rows of validationInputs / validationLabels
  fitCall,          \* whether model.train was invoked, and the sizes of its arguments
  log,              \* the steps of train() that ran, in order, each with its result
  outcome,          \* running | ok | threw
  \* ---- the insight engine (src/unnamed/part_002) ----
  batch,            \* the tracks argument
  predictions,      \* the predictions argument
  insights,         \* what generateInsights returned
  recommendations,  \* what generateRecommendations returned
  \* ---- CSVTrainer.trackFeaturesToVector, called on its own ----
  features,         \* the feature record passed in
  vector,           \* the vector returned
  \* ---- configuration loading (src/src/config/index.ts) ----
  env,              \* process.env
  config,           \* the config object
  cpc,              \* start | loaded | exited
  \* main
  mainPc,           \* none | dirs | check | loading | start | running | exited
  dirs,             \* the directories that exist
  modelPathExists,  \* whether the model file exists
  startCalled       \* whether main has called api.start()

serverVars ==
  << model, loadedInsts, nextInst, loadCall, listening, alive, forwards, reqs,
     probe, everLoaded, modelFile, tensorHeap >>

trainerVars ==
  << sessions, validationSplit, tpc, examples, tensors, trainData,
     validationData, fitCall, log, outcome >>

insightVars == << batch, predictions, insights, recommendations >>

codecVars == << features, vector >>

configVars == << env, config, cpc >>

mainVars == << mainPc, dirs, modelPathExists, startCalled >>

vars == << serverVars, trainerVars, insightVars, codecVars, configVars, mainVars >>

(***************************************************************************)
(* Request bodies of POST /analyze.  A track is a function from the fields *)
(* it carries to fixed-point numbers.                                      *)
(***************************************************************************)
TrackMid == [f \in FieldSet |-> Unit \div 2]

TrackEdge == [f \in FieldSet |-> IF f \in {"danceability", "valence"} THEN 0 ELSE Unit]

TrackMissing(g) == [f \in FieldSet \ {g} |-> Unit \div 2]

TrackWith(g, v) == [f \in FieldSet |-> IF f = g THEN v ELSE Unit \div 2]

Repeat(t, n) == [i \in 1..n |-> t]

GoodTrackLists ==
  { <<TrackMid>>, <<TrackMid, TrackEdge>>, Repeat(TrackMid, MaxTracks) }

BadTrackLists ==
  { <<>>, Repeat(TrackMid, MaxTracks + 1),
    <<TrackMid, TrackMissing("playlist_position")>>,
    <<TrackWith("energy", Unit + 1)>>, <<TrackWith("valence", 0 - 1), TrackMid>> }

Bodies ==
  { [hasTracks |-> FALSE, tracks |-> <<>>, options |-> "absent"] }
  \cup { [hasTracks |-> TRUE, tracks |-> ts, options |-> "absent"] :
           ts \in GoodTrackLists \cup BadTrackLists }
  \cup { [hasTracks |-> TRUE, tracks |-> <<TrackMid>>, options |-> "valid"] }
  \cup { [hasTracks |-> TRUE, tracks |-> <<TrackMid>>, options |-> "invalid"] }

\* trackFeaturesSchema: every field required, a number in [0,1].
TrackFeaturesSchema(t) ==
  \A f \in FieldSet : f \in DOMAIN t /\ t[f] >= 0 /\ t[f] <= Unit

\* analyzeRequestSchema: tracks required, 1..100 items of trackFeaturesSchema;
\* options optional.
AnalyzeRequestSchema(body) ==
  /\ body.hasTracks
  /\ Len(body.tracks) >= MinTracks
  /\ Len(body.tracks) <= MaxTracks
  /\ \A i \in 1..Len(body.tracks) : TrackFeaturesSchema(body.tracks[i])
  /\ body.options # "invalid"

\* validateAnalyzeRequest: TRUE when it returns, FALSE when it throws
\* ValidationError(`Validation failed: ...`).
ValidateAnalyzeRequest(body) == AnalyzeRequestSchema(body)

(***************************************************************************)
(* Responses.  The error message of a validation failure is modelled by    *)
(* its fixed prefix.                                                       *)
(***************************************************************************)
\* No `data` member.
NoPredictions ==
  [mood_prediction |-> [valence |-> 0, energy |-> 0, arousal |-> 0],
   pattern_embedding |-> <<>>,
   next_track_prediction |-> [valence |-> 0, energy |-> 0, danceability |-> 0],
   confidence_scores |-> [mood |-> 0, next_track |-> 0],
   tracks_analyzed |-> 0]

NoResp == [status |-> 0, success |-> FALSE, error |-> "", data |-> NoPredictions]

Json(status, success, error) ==
  [status |-> status, success |-> success, error |-> error, data |-> NoPredictions]

\* setupErrorHandling: the error middleware.
ErrorMiddleware(kind, msg) ==
  IF kind = "ValidationError" THEN Json(400, FALSE, msg)
  ELSE IF kind = "ModelError" THEN Json(500, FALSE, msg)
  ELSE Json(500, FALSE, "Internal server error")

\* The catch block of handleAnalyze, and what express does with the promise
\* the handler returns: a typed error is rethrown, so the promise rejects; a
\* build that forwards rejections runs the error middleware, one that does
\* not leaves the rejection unhandled and the process exits (part_001).
CatchAnalyze(req, kind, msg) ==
  IF kind \in {"ValidationError", "ModelError"}
  THEN IF forwards
       THEN [req EXCEPT !.pc = "done", !.resp = ErrorMiddleware(kind, msg), !.sent = @ + 1]
       ELSE [req EXCEPT !.pc = "crashed"]
  ELSE [req EXCEPT !.pc = "done", !.resp = Json(500, FALSE, msg), !.sent = @ + 1]

\* SimpleSpotifyModel.loadModel(path): it restores the weights or raises.
ModelLoadOutcomes == {"ok", "fail"}

\* SimpleSpotifyModel.predict: raises on an instance that holds no weights.
PredictOutcomes(inst) ==
  IF inst \in loadedInsts THEN {"ok", "ModelError", "Error"} ELSE {"ModelError", "Error"}

(***************************************************************************)
(* Tensors.  A tensor lives in the tf engine until it is disposed; the     *)
(* locals of a performAnalysis call hold tensor ids.  `users` records the  *)
(* requests that created, read or disposed the tensor.                     *)
(***************************************************************************)
NoTensor == 0

InputId(r) == 2 * r - 1

PredictionId(r) == 2 * r

FreeTensor ==
  [state |-> "none", disposals |-> 0, rows |-> <<>>, owner |-> 0, users |-> {}]

\* tf.tensor2d(rows), and the tensor a predict call returns.
Tensor2d(heap, id, rows, r) ==
  [heap EXCEPT ![id] = [state |-> "live", disposals |-> 0, rows |-> rows,
                        owner |-> r, users |-> {r}]]

\* A read of the tensor's values by request r.
Use(heap, id, r) == [heap EXCEPT ![id].users = @ \cup {r}]

\* tensor.dispose(), and `?.dispose()` on a null reference.
Dispose(heap, id, r) ==
  IF id = NoTensor
  THEN heap
  ELSE [heap EXCEPT ![id].state = "disposed", ![id].disposals = @ + 1,
                    ![id].rows = <<>>, ![id].users = @ \cup {r}]

\* The `const inputTensor` of the performAnalysis call of request r.
InputTensorShared(rq, r) ==
  LET made == { q \in DOMAIN rq : rq[q].inputTensor # NoTensor }
  IN IF made = {} THEN NoTensor
     ELSE rq[CHOOSE q \in made : \A p \in made : p <= q].inputTensor

InputTensor(rq, r) == rq[r].inputTensor

\* The finally block of performAnalysis.
FinallyPredictionOnly(heap, rq, r) == Dispose(heap, rq[r].predictionTensor, r)

Finally(heap, rq, r) ==
  Dispose(Dispose(heap, InputTensor(rq, r), r), rq[r].predictionTensor, r)

\* dataProcessor.trackFeaturesToVector: the 20 fields in the fixed order.
ToVector(track) == [i \in 1..Len(Fields) |-> track[Fields[i]]]

FeatureVectors(tracks) == [i \in 1..Len(tracks) |-> ToVector(tracks[i])]

\* The weights a persisted model can hold: a function from one feature
\* vector to the three outputs (valence, energy, danceability).
ModelWeights == {"const", "echo"}

ModelRow(w, row) ==
  IF w = "echo" THEN << row[10], row[2], row[1] >>
  ELSE << Unit \div 2, Unit \div 2, Unit \div 2 >>

\* The values of the tensor predict returns for a batch: one output row per
\* input row, row after row.
Predict(w, rows) ==
  [k \in 1..(OutputDim * Len(rows)) |->
     ModelRow(w, rows[((k - 1) \div OutputDim) + 1])[((k - 1) % OutputDim) + 1]]

Min(a, b) == IF a <= b THEN a ELSE b

\* The predictions performAnalysis builds from predictionValues.
PredictionsDerivedConfidence(pv, n) ==
  [mood_prediction |-> [valence |-> pv[1], energy |-> pv[2], arousal |-> pv[3]],
   pattern_embedding |-> SubSeq(pv, 1, Min(EmbeddingLen, Len(pv))),
   next_track_prediction |-> [valence |-> pv[1], energy |-> pv[2], danceability |-> pv[3]],
   confidence_scores |-> [mood |-> pv[1], next_track |-> pv[2]],
   tracks_analyzed |-> n]

\* The predictions built from the last output row.
PredictionsOfLastRow(pv, n) ==
  [mood_prediction |->
     [valence |-> pv[Len(pv) - 2], energy |-> pv[Len(pv) - 1], arousal |-> pv[Len(pv)]],
   pattern_embedding |-> SubSeq(pv, 1, Min(EmbeddingLen, Len(pv))),
   next_track_prediction |->
     [valence |-> pv[Len(pv) - 2], energy |-> pv[Len(pv) - 1], danceability |-> pv[Len(pv)]],
   confidence_scores |-> [mood |-> ConfidenceMood, next_track |-> ConfidenceNextTrack],
   tracks_analyzed |-> n]

Predictions(pv, n) ==
  [mood_prediction |-> [valence |-> pv[1], energy |-> pv[2], arousal |-> pv[3]],
   pattern_embedding |-> SubSeq(pv, 1, Min(EmbeddingLen, Len(pv))),
   next_track_prediction |-> [valence |-> pv[1], energy |-> pv[2], danceability |-> pv[3]],
   confidence_scores |-> [mood |-> ConfidenceMood, next_track |-> ConfidenceNextTrack],
   tracks_analyzed |-> n]

IdleReq ==
  [pc |-> "idle", body |-> [hasTracks |-> FALSE, tracks |-> <<>>, options |-> "absent"],
   seenModel |-> NoModel, inputTensor |-> NoTensor, predictionTensor |-> NoTensor,
   inferred |-> FALSE, resp |-> NoResp, sent |-> 0]

InitServer ==
  /\ model = NoModel
  /\ loadedInsts = {}
  /\ nextInst = 0
  /\ loadCall = [pc |-> "idle", before |-> NoModel, inst |-> NoModel, last |-> "none"]
  /\ listening = FALSE
  /\ alive = TRUE
  /\ forwards \in BOOLEAN
  /\ reqs = [r \in 1..MaxReqs |-> IdleReq]
  /\ probe = [route |-> "none", status |-> 0, model_loaded |-> FALSE, error |-> "",
              loading |-> FALSE]
  /\ everLoaded = FALSE
  /\ modelFile \in ModelWeights
  /\ tensorHeap = [t \in 1..(2 * MaxReqs) |-> FreeTensor]

\* loadModel up to its await: the handle is replaced by a new instance.
LoadModelBegin ==
  /\ alive
  /\ loadCall.pc = "idle"
  /\ nextInst < MaxLoads
  /\ nextInst' = nextInst + 1
  /\ model' = nextInst + 1
  /\ loadCall' = [pc |-> "loading", before |-> model, inst |-> nextInst + 1, last |-> "none"]
  /\ UNCHANGED << loadedInsts, listening, alive, forwards, reqs, probe, everLoaded,
                  modelFile, tensorHeap >>

\* loadModel after its await: success is logged, a failure is caught and logged.
LoadModelEnd ==
  /\ alive
  /\ loadCall.pc = "loading"
  /\ \E o \in ModelLoadOutcomes :
       /\ loadCall' = [loadCall EXCEPT !.pc = "idle", !.last = o]
       /\ loadedInsts' = IF o = "ok" THEN loadedInsts \cup {loadCall.inst} ELSE loadedInsts
       /\ everLoaded' = (everLoaded \/ o = "ok")
  /\ UNCHANGED << model, nextInst, listening, alive, forwards, reqs, probe, modelFile,
                  tensorHeap >>

\* start: app.listen.
Start ==
  /\ alive
  /\ ~listening
  /\ listening' = TRUE
  /\ UNCHANGED << model, loadedInsts, nextInst, loadCall, alive, forwards, reqs,
                  probe, everLoaded, modelFile, tensorHeap >>

HandleHealthCheck ==
  /\ alive /\ listening
  /\ probe' = [route |-> "health", status |-> 200, model_loaded |-> (model # NoModel),
               error |-> "", loading |-> (loadCall.pc = "loading")]
  /\ UNCHANGED << model, loadedInsts, nextInst, loadCall, listening, alive, forwards,
                  reqs, everLoaded, modelFile, tensorHeap >>

HandleModelInfo ==
  /\ alive /\ listening
  /\ probe' = IF model = NoModel
              THEN [route |-> "model/info", status |-> 404, model_loaded |-> FALSE,
                    error |-> "No model loaded", loading |-> (loadCall.pc = "loading")]
              ELSE [route |-> "model/info", status |-> 200, model_loaded |-> TRUE,
                    error |-> "", loading |-> (loadCall.pc = "loading")]
  /\ UNCHANGED << model, loadedInsts, nextInst, loadCall, listening, alive, forwards,
                  reqs, everLoaded, modelFile, tensorHeap >>

\* What one step of a request leaves: its record and the tensors.
Step(req, heap) == [req |-> req, heap |-> heap]

\* handleAnalyze and performAnalysis up to `await this.model.predict(...)`.
AnalyzeBegin(r, body) ==
  LET r0 == [reqs[r] EXCEPT !.body = body, !.seenModel = model]
  IN IF model = NoModel
     THEN Step(CatchAnalyze(r0, "ModelError", "No model loaded"), tensorHeap)
     ELSE IF ~ValidateAnalyzeRequest(body)
     THEN Step(CatchAnalyze(r0, "ValidationError", "Validation failed"), tensorHeap)
     ELSE IF Len(body.tracks) = 0
     THEN Step(CatchAnalyze(r0, "ValidationError", "No tracks provided for analysis"),
               tensorHeap)
     ELSE Step([r0 EXCEPT !.pc = "predict", !.inputTensor = InputId(r), !.inferred = TRUE],
               Tensor2d(tensorHeap, InputId(r), FeatureVectors(body.tracks), r))

\* performAnalysis after `await this.model.predict(...)`: predict read the
\* input tensor and returned the prediction tensor, or raised.
AnalyzePredicted(r, o) ==
  LET req == reqs[r]
      it == req.inputTensor
      read == Use(tensorHeap, it, r)
  IN IF o = "ok" /\ tensorHeap[it].state = "live"
     THEN Step([req EXCEPT !.pc = "data", !.predictionTensor = PredictionId(r)],
               Tensor2d(read, PredictionId(r),
                        Predict(modelFile, tensorHeap[it].rows), r))
     ELSE Step(CatchAnalyze(req, IF o = "ok" THEN "Error" ELSE o, "predict failed"),
               Finally(read, reqs, r))

\* performAnalysis after `await predictionTensor.data()`, and the rest of
\* handleAnalyze.
AnalyzeRead(r, o) ==
  LET req == reqs[r]
      pt == req.predictionTensor
      read == Use(tensorHeap, pt, r)
      fin == Finally(read, reqs, r)
  IN IF o = "ok" /\ tensorHeap[pt].state = "live"
     THEN Step([req EXCEPT !.pc = "done", !.sent = @ + 1,
                           !.resp = [Json(200, TRUE, "") EXCEPT
                                       !.data = Predictions(tensorHeap[pt].rows,
                                                            Len(req.body.tracks))]],
               fin)
     ELSE Step(CatchAnalyze(req, "Error", "data failed"), fin)

Settle(r, step) ==
  /\ reqs' = [reqs EXCEPT ![r] = step.req]
  /\ tensorHeap' = step.heap
  /\ alive' = (step.req.pc # "crashed")
  /\ UNCHANGED << model, loadedInsts, nextInst, loadCall, listening, forwards, probe,
                  everLoaded, modelFile >>

\* A POST /analyze arrives; requests are numbered in the order they arrive.
HandleAnalyzeOf(bodies) ==
  /\ alive /\ listening
  /\ \E r \in 1..MaxReqs, body \in bodies :
       /\ reqs[r].pc = "idle"
       /\ \A q \in 1..(r - 1) : reqs[q].pc # "idle"
       /\ Settle(r, AnalyzeBegin(r, body))

HandleAnalyze == HandleAnalyzeOf(Bodies)

\* The bodies of the analysis runs: one track, two tracks, no track.
AnalysisBodies ==
  { [hasTracks |-> TRUE, tracks |-> ts, options |-> "absent"] :
      ts \in { <<TrackMid>>, <<TrackEdge, TrackMid>>, <<>> } }

HandleAnalyzeBatch == HandleAnalyzeOf(AnalysisBodies)

\* The bodies of the runs on the first output row: two requests that share
\* their first track, and one without tracks.
FirstRowBodies ==
  { [hasTracks |-> TRUE, tracks |-> ts, options |-> "absent"] :
      ts \in { <<TrackMid>>, <<TrackMid, TrackEdge>>, <<>> } }

HandleAnalyzeFirstRow == HandleAnalyzeOf(FirstRowBodies)

\* The promise of `this.model.predict(...)` of request r settles.
PredictReturnsOf(r) ==
  /\ alive
  /\ reqs[r].pc = "predict"
  /\ \E o \in PredictOutcomes(reqs[r].seenModel) : Settle(r, AnalyzePredicted(r, o))

PredictReturns == \E r \in 1..MaxReqs : PredictReturnsOf(r)

\* The promise of `predictionTensor.data()` of request r settles.
DataReturnsOf(r) ==
  /\ alive
  /\ reqs[r].pc = "data"
  /\ \E o \in {"ok", "Error"} : Settle(r, AnalyzeRead(r, o))

DataReturns == \E r \in 1..MaxReqs : DataReturnsOf(r)

NextServer ==
  \/ LoadModelBegin /\ UNCHANGED << trainerVars, insightVars, codecVars, configVars, mainVars >>
  \/ LoadModelEnd /\ UNCHANGED << trainerVars, insightVars, codecVars, configVars, mainVars >>
  \/ Start /\ UNCHANGED << trainerVars, insightVars, codecVars, configVars, mainVars >>
  \/ HandleHealthCheck /\ UNCHANGED << trainerVars, insightVars, codecVars, configVars, mainVars >>
  \/ HandleModelInfo /\ UNCHANGED << trainerVars, insightVars, codecVars, configVars, mainVars >>
  \/ HandleAnalyze /\ UNCHANGED << trainerVars, insightVars, codecVars, configVars, mainVars >>
  \/ PredictReturns /\ UNCHANGED << trainerVars, insightVars, codecVars, configVars, mainVars >>
  \/ DataReturns /\ UNCHANGED << trainerVars, insightVars, codecVars, configVars, mainVars >>

\* The server without its probes, on the bodies of the analysis runs.
NextAnalyze ==
  \/ LoadModelBegin /\ UNCHANGED << trainerVars, insightVars, codecVars, configVars, mainVars >>
  \/ LoadModelEnd /\ UNCHANGED << trainerVars, insightVars, codecVars, configVars, mainVars >>
  \/ Start /\ UNCHANGED << trainerVars, insightVars, codecVars, configVars, mainVars >>
  \/ HandleAnalyzeBatch /\ UNCHANGED << trainerVars, insightVars, codecVars, configVars, mainVars >>
  \/ PredictReturns /\ UNCHANGED << trainerVars, insightVars, codecVars, configVars, mainVars >>
  \/ DataReturns /\ UNCHANGED << trainerVars, insightVars, codecVars, configVars, mainVars >>

NextFirstRow ==
  \/ LoadModelBegin /\ UNCHANGED << trainerVars, insightVars, codecVars, configVars, mainVars >>
  \/ LoadModelEnd /\ UNCHANGED << trainerVars, insightVars, codecVars, configVars, mainVars >>
  \/ Start /\ UNCHANGED << trainerVars, insightVars, codecVars, configVars, mainVars >>
  \/ HandleAnalyzeFirstRow /\ UNCHANGED << trainerVars, insightVars, codecVars, configVars, mainVars >>
  \/ PredictReturns /\ UNCHANGED << trainerVars, insightVars, codecVars, configVars, mainVars >>
  \/ DataReturns /\ UNCHANGED << trainerVars, insightVars, codecVars, configVars, mainVars >>

\* A pending promise of request r settles: the event loop runs every
\* continuation that is ready.
Settles(r) ==
  (PredictReturnsOf(r) \/ DataReturnsOf(r))
    /\ UNCHANGED << trainerVars, insightVars, codecVars, configVars, mainVars >>

(***************************************************************************)
(* CSVTrainer.                                                             *)
(***************************************************************************)
\* Feature payloads of the corpus (raw values times Unit).
PayloadA ==
  [f \in FieldSet |->
     CASE f = "valence" -> 200 [] f = "energy" -> 300 [] f = "danceability" -> 400
       [] f = "tempo" -> 120 * Unit [] f = "mode" -> 0 [] OTHER -> Unit \div 2]

PayloadB ==
  [f \in FieldSet |->
     CASE f = "valence" -> 900 [] f = "energy" -> 850 [] f = "danceability" -> 700
       [] f = "tempo" -> 90 * Unit [] f = "key" -> 0 [] OTHER -> Unit \div 4]

NoPayload == [f \in {} |-> 0]

TrackKinds ==
  { [hasFeatures |-> FALSE, features |-> NoPayload],
    [hasFeatures |-> TRUE, features |-> PayloadA],
    [hasFeatures |-> TRUE, features |-> PayloadB] }

\* The corpora: every way to cut a list of at most MaxCorpus tracks into
\* non-empty sessions.
RECURSIVE CutInto(_, _)
CutInto(flat, cuts) ==
  IF cuts = {} THEN << flat >>
  ELSE LET c == CHOOSE x \in cuts : \A y \in cuts : x <= y
       IN << SubSeq(flat, 1, c) >>
            \o CutInto(SubSeq(flat, c + 1, Len(flat)), { y - c : y \in cuts \ {c} })

Corpora ==
  { <<>> } \cup
  UNION { { CutInto(flat, cuts) : flat \in [1..n -> TrackKinds], cuts \in SUBSET (1..(n - 1)) } :
          n \in 1..MaxCorpus }

\* config.validationSplit, in tenths: the default 0.2, and 0.5.
ValidationSplits == {2, 5}

\* The divisor trackFeaturesToVector applies to a field.
Divisor(f) ==
  CASE f = "tempo" -> 200
    [] f = "duration_ms" -> 300000
    [] f = "time_signature" -> 7
    [] f = "day_of_week" -> 7
    [] f = "month" -> 12
    [] f = "repeat_count" -> 5
    [] OTHER -> 1

\* The vector with `|| 0` left off the divided fields: an absent one gives
\* NaN, written << 0, 0 >>.
TrackFeaturesToVectorNoFallback(fs) ==
  [i \in 1..Len(Fields) |->
     IF Fields[i] \in DOMAIN fs /\ fs[Fields[i]] # 0
     THEN << fs[Fields[i]], Divisor(Fields[i]) >>
     ELSE IF Fields[i] \notin DOMAIN fs /\ Divisor(Fields[i]) # 1
     THEN << 0, 0 >>
     ELSE << 0, 1 >>]

\* trackFeaturesToVector: `features.f / d || 0` for each field in order; a
\* component is the fraction <<numerator, denominator>>, zero being <<0, 1>>.
TrackFeaturesToVector(fs) ==
  [i \in 1..Len(Fields) |->
     IF Fields[i] \in DOMAIN fs /\ fs[Fields[i]] # 0
     THEN << fs[Fields[i]], Divisor(Fields[i]) >>
     ELSE << 0, 1 >>]

\* The guard with the test of the next track forgotten.
PairHasFeaturesCurrentOnly(cur, next) == cur.hasFeatures

\* The guard of the pair loop: `currentTrack.features && nextTrack.features`.
PairHasFeatures(cur, next) == cur.hasFeatures /\ next.hasFeatures

\* The label of a pair: the next track's valence, energy, danceability.
ExampleLabel(cur, next) ==
  << next.features["valence"], next.features["energy"], next.features["danceability"] >>

\* One turn of the inner loop.  Reading a field of absent features is a
\* TypeError: ok is FALSE.
ExampleOf(cur, next) ==
  IF cur.hasFeatures /\ next.hasFeatures
  THEN [ok |-> TRUE, input |-> TrackFeaturesToVector(cur.features),
        label |-> ExampleLabel(cur, next)]
  ELSE [ok |-> FALSE, input |-> <<>>, label |-> <<>>]

RECURSIVE SessionExamples(_, _)
SessionExamples(tracks, i) ==
  IF i > Len(tracks) - 1 THEN <<>>
  ELSE (IF PairHasFeatures(tracks[i], tracks[i + 1])
        THEN << ExampleOf(tracks[i], tracks[i + 1]) >>
        ELSE <<>>) \o SessionExamples(tracks, i + 1)

RECURSIVE AllExamples(_, _)
AllExamples(ss, k) ==
  IF k > Len(ss) THEN <<>>
  ELSE SessionExamples(ss[k], 1) \o AllExamples(ss, k + 1)

\* The validation count rounded up instead of down.
NumValidationCeil(n, f) == (n * f + 9) \div 10

\* Math.floor(allInputs.length * validationSplit).
NumValidation(n, f) == (n * f) \div 10

\* tensor.slice([begin, 0], [size, -1]) on the rows of a 2-d tensor.
Slice(rows, begin, size) == SubSeq(rows, begin + 1, begin + size)

TensorNames ==
  { "inputsTensor", "labelsTensor", "trainInputs", "trainLabels",
    "validationInputs", "validationLabels" }

SliceNames == TensorNames \ {"inputsTensor", "labelsTensor"}

\* The order of the steps of train().
StepOrder == << "load", "prepare", "build", "train", "save", "report" >>

\* The outcomes of a call into a collaborator (csvLoader, model, filesystem).
CallOutcomes == {"ok", "threw"}

NoData == [inputs |-> <<>>, labels |-> <<>>]

TrainerIdle ==
  /\ sessions = <<>>
  /\ validationSplit = 2
  /\ tpc = "idle"
  /\ examples = <<>>
  /\ tensors = [t \in TensorNames |-> "none"]
  /\ trainData = NoData
  /\ validationData = NoData
  /\ fitCall = [called |-> FALSE, nTrain |-> 0, nValidation |-> 0]
  /\ log = <<>>
  /\ outcome = "running"

InitTrainer ==
  /\ sessions \in Corpora
  /\ validationSplit \in ValidationSplits
  /\ tpc = "load"
  /\ examples = <<>>
  /\ tensors = [t \in TensorNames |-> "none"]
  /\ trainData = NoData
  /\ validationData = NoData
  /\ fitCall = [called |-> FALSE, nTrain |-> 0, nValidation |-> 0]
  /\ log = <<>>
  /\ outcome = "running"

\* A catch block that logs the error and lets the pipeline go on.
AfterStepSwallowed(res, next) == next

\* What train() does after a step: on success the next step, on a failure
\* the catch block logs and rethrows.
AfterStep(res, next) == IF res = "ok" THEN next ELSE "failed"

Finish(step, res, cause, next) ==
  /\ log' = Append(log, [step |-> step, result |-> res, cause |-> cause])
  /\ tpc' = AfterStep(res, next)
  /\ outcome' = IF tpc' = "failed" THEN "threw" ELSE IF tpc' = "done" THEN "ok" ELSE "running"

LoadAndAnalyzeData ==
  /\ tpc = "load"
  /\ \E o \in CallOutcomes : Finish("load", o, IF o = "ok" THEN "" ELSE "external", "prepare")
  /\ UNCHANGED << sessions, validationSplit, examples, tensors, trainData,
                  validationData, fitCall >>

PrepareTrainingData ==
  /\ tpc = "prepare"
  /\ LET all == AllExamples(sessions, 1)
         n == Len(all)
         numValidation == NumValidation(n, validationSplit)
         numTrain == n - numValidation
         inputs == [i \in 1..n |-> all[i].input]
         labels == [i \in 1..n |-> all[i].label]
     IN /\ examples' = all
        /\ IF \E i \in 1..n : ~all[i].ok
           THEN \* a TypeError inside the loop
                /\ Finish("prepare", "threw", "TypeError", "build")
                /\ UNCHANGED << tensors, trainData, validationData >>
           ELSE IF n = 0
           THEN \* tf.tensor2d([]) has no 2-d shape to infer and throws
                /\ Finish("prepare", "threw", "tensor2d", "build")
                /\ UNCHANGED << tensors, trainData, validationData >>
           ELSE /\ tensors' = [t \in TensorNames |->
                                 IF t \in SliceNames THEN "live" ELSE "disposed"]
                /\ trainData' = [inputs |-> Slice(inputs, 0, numTrain),
                                 labels |-> Slice(labels, 0, numTrain)]
                /\ validationData' = [inputs |-> Slice(inputs, numTrain, numValidation),
                                      labels |-> Slice(labels, numTrain, numValidation)]
                /\ Finish("prepare", "ok", "", "build")
  /\ UNCHANGED << sessions, validationSplit, fitCall >>

BuildModel ==
  /\ tpc = "build"
  /\ \E o \in CallOutcomes : Finish("build", o, IF o = "ok" THEN "" ELSE "external", "train")
  /\ UNCHANGED << sessions, validationSplit, examples, tensors, trainData,
                  validationData, fitCall >>

\* trainModel up to `await this.model.train(...)`.
TrainModelCall ==
  /\ tpc = "train"
  /\ tpc' = "fitting"
  /\ fitCall' = [called |-> TRUE, nTrain |-> Len(trainData.inputs),
                 nValidation |-> Len(validationData.inputs)]
  /\ UNCHANGED << sessions, validationSplit, examples, tensors, trainData,
                  validationData, log, outcome >>

\* trainModel after the await: the finally block disposes the four slices.
TrainModelReturn ==
  /\ tpc = "fitting"
  /\ tensors' = [t \in TensorNames |-> IF t \in SliceNames THEN "disposed" ELSE tensors[t]]
  /\ \E o \in CallOutcomes : Finish("train", o, IF o = "ok" THEN "" ELSE "external", "save")
  /\ UNCHANGED << sessions, validationSplit, examples, trainData, validationData, fitCall >>

SaveModel ==
  /\ tpc = "save"
  /\ \E o \in CallOutcomes : Finish("save", o, IF o = "ok" THEN "" ELSE "external", "report")
  /\ UNCHANGED << sessions, validationSplit, examples, tensors, trainData,
                  validationData, fitCall >>

GenerateReport ==
  /\ tpc = "report"
  /\ \E o \in CallOutcomes : Finish("report", o, IF o = "ok" THEN "" ELSE "external", "done")
  /\ UNCHANGED << sessions, validationSplit, examples, tensors, trainData,
                  validationData, fitCall >>

NextTrainer ==
  \/ LoadAndAnalyzeData /\ UNCHANGED << serverVars, insightVars, codecVars, configVars, mainVars >>
  \/ PrepareTrainingData /\ UNCHANGED << serverVars, insightVars, codecVars, configVars, mainVars >>
  \/ BuildModel /\ UNCHANGED << serverVars, insightVars, codecVars, configVars, mainVars >>
  \/ TrainModelCall /\ UNCHANGED << serverVars, insightVars, codecVars, configVars, mainVars >>
  \/ TrainModelReturn /\ UNCHANGED << serverVars, insightVars, codecVars, configVars, mainVars >>
  \/ SaveModel /\ UNCHANGED << serverVars, insightVars, codecVars, configVars, mainVars >>
  \/ GenerateReport /\ UNCHANGED << serverVars, insightVars, codecVars, configVars, mainVars >>

(***************************************************************************)
(* The insight engine (src/unnamed/part_002).  A mean is the fraction      *)
(* << sum, count >>; a standard deviation is kept as the radicand and the  *)
(* denominator of sqrt(radicand) / den, so that comparisons are exact.     *)
(***************************************************************************)
RECURSIVE Sum(_)
Sum(xs) == IF xs = <<>> THEN 0 ELSE xs[1] + Sum(Tail(xs))

\* helpers.mean
Mean(xs) == << Sum(xs), Len(xs) >>

\* helpers.standardDeviation (over the whole batch)
StandardDeviation(xs) ==
  [radicand |-> Len(xs) * Sum([i \in 1..Len(xs) |-> xs[i] * xs[i]]) - Sum(xs) * Sum(xs),
   den |-> Len(xs)]

\* q > c and q < c for a fraction q and a fixed-point number c.
Gt(q, c) == q[1] > c * q[2]

Lt(q, c) == q[1] < c * q[2]

\* s < c for a standard deviation s and a fixed-point number c >= 0.
StdLt(s, c) == s.radicand < (c * s.den) * (c * s.den)

\* The integer square root, by bisection on lo..hi.
RECURSIVE ISqrtIn(_, _, _)
ISqrtIn(x, lo, hi) ==
  IF lo >= hi THEN lo
  ELSE LET mid == (lo + hi + 1) \div 2
       IN IF mid * mid <= x THEN ISqrtIn(x, mid, hi) ELSE ISqrtIn(x, lo, mid - 1)

ISqrt(x) == ISqrtIn(x, 0, Min(x, 46340))

\* tracks.map(t => t[f])
Column(tracks, f) == [i \in 1..Len(tracks) |-> tracks[i][f]]

\* generateMoodInsight
GenerateMoodInsightFromBatch(tracks, preds) ==
  LET avgValence == Mean(Column(tracks, "valence"))
  IN IF Gt(avgValence, 700)
     THEN "Your music taste consistently leans towards positive, uplifting tracks."
     ELSE IF Lt(avgValence, 300)
     THEN "You gravitate towards more melancholic or introspective music."
     ELSE "Your music taste spans a balanced emotional range"

\* The thresholds taken as inclusive.
GenerateMoodInsightInclusive(tracks, preds) ==
  LET avgValence == Mean(Column(tracks, "valence"))
      predictedValence == preds.mood_prediction.valence
  IN IF predictedValence >= 700
     THEN IF ~Lt(avgValence, 700)
          THEN "Your music taste consistently leans towards positive, uplifting tracks."
          ELSE "While your recent tracks show varied emotions, your listening pattern suggests a preference for uplifting music"
     ELSE IF predictedValence <= 300
     THEN IF ~Gt(avgValence, 300)
          THEN "You gravitate towards more melancholic or introspective music."
          ELSE "Your model predicts a shift towards more contemplative music choices"
     ELSE "Your music taste spans a balanced emotional range"

GenerateMoodInsight(tracks, preds) ==
  LET avgValence == Mean(Column(tracks, "valence"))
      predictedValence == preds.mood_prediction.valence
  IN IF predictedValence > 700
     THEN IF Gt(avgValence, 700)
          THEN "Your music taste consistently leans towards positive, uplifting tracks."
          ELSE "While your recent tracks show varied emotions, your listening pattern suggests a preference for uplifting music"
     ELSE IF predictedValence < 300
     THEN IF Lt(avgValence, 300)
          THEN "You gravitate towards more melancholic or introspective music."
          ELSE "Your model predicts a shift towards more contemplative music choices"
     ELSE "Your music taste spans a balanced emotional range"

\* generateEnergyInsight with the trend read off the prediction alone.
GenerateEnergyInsightTrendOfPrediction(tracks, preds) ==
  LET avgEnergy == Mean(Column(tracks, "energy"))
      energyVariance == StandardDeviation(Column(tracks, "energy"))
      predictedEnergy == preds.mood_prediction.energy
  IN IF Gt(avgEnergy, 700)
     THEN IF StdLt(energyVariance, 200)
          THEN "You consistently prefer high-energy, danceable music."
          ELSE "While you enjoy high-energy music, you also appreciate variety in intensity"
     ELSE IF Lt(avgEnergy, 300)
     THEN "You gravitate towards calmer, more relaxed tracks."
     ELSE IF 2 * predictedEnergy >= Unit
     THEN "Your energy preferences are moderate and balanced. [...] increasing energy levels."
     ELSE "Your energy preferences are moderate and balanced. [...] decreasing energy levels."

\* generateEnergyInsight
GenerateEnergyInsight(tracks, preds) ==
  LET avgEnergy == Mean(Column(tracks, "energy"))
      energyVariance == StandardDeviation(Column(tracks, "energy"))
      predictedEnergy == preds.mood_prediction.energy
  IN IF Gt(avgEnergy, 700)
     THEN IF StdLt(energyVariance, 200)
          THEN "You consistently prefer high-energy, danceable music."
          ELSE "While you enjoy high-energy music, you also appreciate variety in intensity"
     ELSE IF Lt(avgEnergy, 300)
     THEN "You gravitate towards calmer, more relaxed tracks."
     ELSE IF Lt(avgEnergy, predictedEnergy)
     THEN "Your energy preferences are moderate and balanced. [...] increasing energy levels."
     ELSE "Your energy preferences are moderate and balanced. [...] decreasing energy levels."

\* generateTimingInsight: the sentence on the hour, then the one on weekends.
GenerateTimingInsight(tracks) ==
  LET hours == [i \in 1..Len(tracks) |-> tracks[i].hour_of_day * 24]
      avgHour == Mean(hours)
      weekendTracks == Cardinality({ i \in 1..Len(tracks) : 2 * tracks[i].is_weekend > Unit })
      weekendRatio == << weekendTracks * Unit, Len(tracks) >>
  IN << IF Lt(avgHour, 6 * Unit) THEN "You're a night owl"
        ELSE IF Lt(avgHour, 12 * Unit) THEN "You're an early bird listener"
        ELSE IF Lt(avgHour, 18 * Unit) THEN "Your listening patterns center around afternoon hours"
        ELSE "You're an evening listener",
        IF Gt(weekendRatio, 700) THEN " Your listening heavily skews towards weekends"
        ELSE IF Lt(weekendRatio, 300) THEN " You listen more during weekdays"
        ELSE " Your listening is well-distributed across weekdays and weekends." >>

DiversityFeatures ==
  << "danceability", "energy", "valence", "acousticness", "instrumentalness" >>

\* The mean of the five standard deviations, each to one part in
\* Unit * Len(tracks).
DiversityScoreFirstTrackWeighted(tracks) ==
  << Sum([k \in 1..Len(DiversityFeatures) |->
            ISqrt(StandardDeviation(
                    <<tracks[1][DiversityFeatures[k]]>> \o Column(tracks, DiversityFeatures[k])
                  ).radicand)]),
     Len(DiversityFeatures) * (Len(tracks) + 1) >>

DiversityScore(tracks) ==
  << Sum([k \in 1..Len(DiversityFeatures) |->
            ISqrt(StandardDeviation(Column(tracks, DiversityFeatures[k])).radicand)]),
     Len(DiversityFeatures) * Len(tracks) >>

\* The three sentences of generateDiversityInsight, in full.
HighlyDiverse ==
  "Your music taste is highly diverse, spanning different genres, moods, and styles. You're an adventurous listener who enjoys exploring various musical landscapes."

ModeratelyDiverse ==
  "You have a moderately diverse music taste with some consistency in preferences. You enjoy variety while maintaining certain stylistic preferences."

StrongConsistency ==
  "Your music taste shows strong consistency and focus. You have well-defined preferences and tend to stay within your comfort zone."

\* generateDiversityInsight with the upper threshold at 0.2.
GenerateDiversityInsightAtFifth(tracks) ==
  LET avgDiversity == DiversityScore(tracks)
  IN IF Gt(avgDiversity, 200) THEN HighlyDiverse
     ELSE IF Gt(avgDiversity, 150) THEN ModeratelyDiverse
     ELSE StrongConsistency

\* generateDiversityInsight
GenerateDiversityInsight(tracks) ==
  LET avgDiversity == DiversityScore(tracks)
  IN IF Gt(avgDiversity, 250) THEN HighlyDiverse
     ELSE IF Gt(avgDiversity, 150) THEN ModeratelyDiverse
     ELSE StrongConsistency

KeyNames == << "C", "C#/Db", "D", "D#/Eb", "E", "F", "F#/Gb", "G", "G#/Ab", "A", "A#/Bb", "B" >>

\* Math.round(track.key * 11)
KeyBin(track) == (track.key * (Len(KeyNames) - 1) + Unit \div 2) \div Unit

\* analyzeKeyDistribution: NoKey (null) or the first bin that holds maxCount.
NoKey == 0 - 1

\* analyzeKeyDistribution with the threshold taken as inclusive.
AnalyzeKeyDistributionAtLeast(tracks) ==
  LET keyCount == [k \in 0..(Len(KeyNames) - 1) |->
                     Cardinality({ i \in 1..Len(tracks) : KeyBin(tracks[i]) = k })]
      maxCount == CHOOSE m \in { keyCount[k] : k \in DOMAIN keyCount } :
                    \A k \in DOMAIN keyCount : keyCount[k] <= m
      indexOf == CHOOSE k \in DOMAIN keyCount :
                   /\ keyCount[k] = maxCount
                   /\ \A j \in DOMAIN keyCount : keyCount[j] = maxCount => k <= j
  IN [dominantKey |-> IF 5 * maxCount >= Len(tracks) THEN indexOf ELSE NoKey,
      distribution |-> [k \in DOMAIN keyCount |-> << keyCount[k], Len(tracks) >>]]

\* analyzeKeyDistribution
AnalyzeKeyDistribution(tracks) ==
  LET keyCount == [k \in 0..(Len(KeyNames) - 1) |->
                     Cardinality({ i \in 1..Len(tracks) : KeyBin(tracks[i]) = k })]
      maxCount == CHOOSE m \in { keyCount[k] : k \in DOMAIN keyCount } :
                    \A k \in DOMAIN keyCount : keyCount[k] <= m
      indexOf == CHOOSE k \in DOMAIN keyCount :
                   /\ keyCount[k] = maxCount
                   /\ \A j \in DOMAIN keyCount : keyCount[j] = maxCount => k <= j
  IN [dominantKey |-> IF 5 * maxCount > Len(tracks) THEN indexOf ELSE NoKey,
      distribution |-> [k \in DOMAIN keyCount |-> << keyCount[k], Len(tracks) >>]]

\* analyzeTempoPatterns: whether the coefficient of variation is below
\* 0.1, and the dominant range.
AnalyzeTempoPatterns(tracks) ==
  LET tempos == [i \in 1..Len(tracks) |-> (tracks[i].tempo * 150) \div Unit + 50]
      sd == StandardDeviation(tempos)
      avgTempo == Mean(tempos)
  IN [varianceBelowTenth |-> 100 * sd.radicand < Sum(tempos) * Sum(tempos),
      dominantRange |-> IF Lt(avgTempo, 80) THEN "slow (60-80)"
                        ELSE IF Lt(avgTempo, 110) THEN "moderate (80-110)"
                        ELSE IF Lt(avgTempo, 140) THEN "upbeat (110-140)"
                        ELSE "fast (140+)"]

\* analyzeAcousticPreference: the mean of 0.7 a + 0.3 i - 0.2 e, in tenths
\* of the fixed-point unit.
AnalyzeAcousticPreference(tracks) ==
  << Sum([i \in 1..Len(tracks) |->
            7 * tracks[i].acousticness + 3 * tracks[i].instrumentalness
              - 2 * tracks[i].energy]),
     10 * Len(tracks) >>

\* The skip block of generatePatternInsights.
SkipPatternWrongSide(avgSkipRate) ==
  IF Gt(avgSkipRate, 300) THEN << "You tend to skip tracks frequently" >>
  ELSE IF Gt(avgSkipRate, 100) THEN << "You rarely skip tracks" >>
  ELSE <<>>

SkipPattern(avgSkipRate) ==
  IF Gt(avgSkipRate, 300) THEN << "You tend to skip tracks frequently" >>
  ELSE IF Lt(avgSkipRate, 100) THEN << "You rarely skip tracks" >>
  ELSE <<>>

\* The repeat block.
RepeatPattern(avgRepeatRate) ==
  IF Gt(avgRepeatRate, 200) THEN << "You frequently replay songs" >> ELSE <<>>

\* The key block.
KeyPattern(keyDistribution) ==
  IF keyDistribution.dominantKey # NoKey
  THEN << "You show a preference for music in " \o KeyNames[keyDistribution.dominantKey + 1] >>
  ELSE <<>>

\* The tempo block without its else branch.
TempoPatternConsistentOnly(tempoAnalysis) ==
  IF tempoAnalysis.varianceBelowTenth
  THEN << "Your tempo preferences are consistent, clustering around "
            \o tempoAnalysis.dominantRange >>
  ELSE <<>>

\* The tempo block.
TempoPattern(tempoAnalysis) ==
  IF tempoAnalysis.varianceBelowTenth
  THEN << "Your tempo preferences are consistent, clustering around "
            \o tempoAnalysis.dominantRange >>
  ELSE << "Your tempo preferences vary widely" >>

\* The acoustic block.
AcousticPattern(acousticPreference) ==
  IF Gt(acousticPreference, 700)
  THEN << "You strongly prefer acoustic and organic-sounding music" >>
  ELSE IF Lt(acousticPreference, 300)
  THEN << "You lean towards electronic and heavily produced music" >>
  ELSE <<>>

\* The two confidence blocks.
MoodConfidencePattern(preds) ==
  IF preds.confidence_scores.mood > 800
  THEN << "Your mood preferences are highly predictable" >> ELSE <<>>

NextTrackConfidencePattern(preds) ==
  IF preds.confidence_scores.next_track > 800
  THEN << "Your listening patterns are highly consistent" >> ELSE <<>>

Fallback == "Your listening patterns show interesting complexity that requires more data"

\* generatePatternInsights with the confidence blocks evaluated first.
GeneratePatternInsightsConfidenceFirst(tracks, preds) ==
  LET keyDistribution == AnalyzeKeyDistribution(tracks)
      tempoAnalysis == AnalyzeTempoPatterns(tracks)
      acousticPreference == AnalyzeAcousticPreference(tracks)
      patterns ==
        MoodConfidencePattern(preds)
        \o NextTrackConfidencePattern(preds)
        \o SkipPattern(Mean(Column(tracks, "skip_rate")))
        \o RepeatPattern(Mean(Column(tracks, "repeat_count")))
        \o KeyPattern(keyDistribution)
        \o TempoPattern(tempoAnalysis)
        \o AcousticPattern(acousticPreference)
  IN IF Len(patterns) > 0 THEN patterns ELSE << Fallback >>

\* generatePatternInsights
GeneratePatternInsights(tracks, preds) ==
  LET keyDistribution == AnalyzeKeyDistribution(tracks)
      tempoAnalysis == AnalyzeTempoPatterns(tracks)
      acousticPreference == AnalyzeAcousticPreference(tracks)
      patterns ==
        SkipPattern(Mean(Column(tracks, "skip_rate")))
        \o RepeatPattern(Mean(Column(tracks, "repeat_count")))
        \o KeyPattern(keyDistribution)
        \o TempoPattern(tempoAnalysis)
        \o AcousticPattern(acousticPreference)
        \o MoodConfidencePattern(preds)
        \o NextTrackConfidencePattern(preds)
  IN IF Len(patterns) > 0 THEN patterns ELSE << Fallback >>

\* generateInsights
GenerateInsightsOf(tracks, preds) ==
  [mood |-> GenerateMoodInsight(tracks, preds),
   energy |-> GenerateEnergyInsight(tracks, preds),
   timing |-> GenerateTimingInsight(tracks),
   diversity |-> GenerateDiversityInsight(tracks),
   patterns |-> GeneratePatternInsights(tracks, preds)]

NoInsights ==
  [mood |-> "", energy |-> "", timing |-> << "", "" >>, diversity |-> "", patterns |-> <<>>]

\* String.prototype.includes
Includes(s, w) ==
  \E i \in 1..(Len(s) - Len(w) + 1) : SubSeq(s, i, i + Len(w) - 1) = w

\* x > q + c and x < q - c for a number x, a fraction q and a number c.
Above(x, q, c) == x * q[2] > q[1] + c * q[2]

Below(x, q, c) == x * q[2] < q[1] - c * q[2]

\* generateRecommendations
GenerateRecommendationsOf(tracks, preds) ==
  LET avgValence == Mean(Column(tracks, "valence"))
      avgEnergy == Mean(Column(tracks, "energy"))
      diversity == GenerateDiversityInsight(tracks)
  IN (IF Above(preds.mood_prediction.valence, avgValence, 200)
      THEN << "Try exploring more uplifting genres like reggae, pop-punk, or upbeat folk music." >>
      ELSE IF Below(preds.mood_prediction.valence, avgValence, 200)
      THEN << "Consider diving into contemplative genres like ambient, melancholic indie, or classical music." >>
      ELSE <<>>)
     \o (IF Above(preds.mood_prediction.energy, avgEnergy, 200)
         THEN << "You might enjoy high-energy genres like electronic dance music, punk rock, or Latin rhythms." >>
         ELSE IF Below(preds.mood_prediction.energy, avgEnergy, 200)
         THEN << "Explore calming genres like lo-fi hip hop, acoustic folk, or meditation music." >>
         ELSE <<>>)
     \o (IF Includes(diversity, "consistent")
         THEN << "Challenge yourself by exploring a new genre outside your comfort zone this week." >>
         ELSE IF Includes(diversity, "diverse")
         THEN << "Your diverse taste is excellent! Consider creating themed playlists to organize your broad preferences." >>
         ELSE <<>>)

NoRecommendations == [returned |-> FALSE, list |-> <<>>]

\* The tracks of the batches handed to the insight engine.
InsightTrack(valence, energy, skip, key, tempo, acoustic) ==
  [f \in FieldSet |->
     CASE f = "valence" -> valence [] f = "energy" -> energy [] f = "skip_rate" -> skip
       [] f = "key" -> key [] f = "tempo" -> tempo
       [] f \in {"acousticness", "instrumentalness"} -> acoustic
       [] f \in {"repeat_count", "is_weekend"} -> Unit - skip
       [] f = "danceability" -> energy
       [] OTHER -> Unit \div 2]

HappyTrack == InsightTrack(900, 850, 50, 0, 600, 100)

SadTrack == InsightTrack(100, 200, 400, 500, 100, 900)

SteadyTrack == InsightTrack(700, 300, 160, 1000, 600, 500)

LoudTrack == InsightTrack(500, 1000, 300, 200, 1000, 0)

SoftTrack == InsightTrack(300, 0, 100, 800, 0, 1000)

InsightTracks == { HappyTrack, SadTrack, SteadyTrack, TrackMid }

\* Five tracks in five different keys.
KeySpreadBatch == << HappyTrack, LoudTrack, SadTrack, SoftTrack, SteadyTrack >>

\* Every batch of 1..MaxBatch of these tracks, the batch of 20 happy tracks,
\* the batches of five and ten tracks spread over five keys, and two loud
\* batches.
Batches ==
  UNION { [1..n -> InsightTracks] : n \in 1..MaxBatch }
  \cup { Repeat(HappyTrack, 20), KeySpreadBatch, KeySpreadBatch \o KeySpreadBatch,
         << LoudTrack >>, << LoudTrack, LoudTrack, SteadyTrack >> }

\* The predictions passed in: what performAnalysis builds, for some model output.
InsightPredictions ==
  { Predictions(<< v, e, Unit \div 2 >>, 1) : v \in {100, 300, 500, 700, 900}, e \in {200, 900} }
  \cup { [Predictions(<< Unit \div 2, Unit \div 2, Unit \div 2 >>, 1)
            EXCEPT !.confidence_scores = c] :
            c \in { [mood |-> 500, next_track |-> 900], [mood |-> 900, next_track |-> 900],
                    [mood |-> 800, next_track |-> 800] } }

InsightsIdle ==
  /\ batch = <<>>
  /\ predictions = NoPredictions
  /\ insights = NoInsights
  /\ recommendations = NoRecommendations

InitInsights ==
  /\ batch \in Batches
  /\ predictions \in InsightPredictions
  /\ insights = NoInsights
  /\ recommendations = NoRecommendations

\* generateInsights(tracks, predictions): the arguments are read, the result
\* is a new object.
GenerateInsights ==
  /\ insights = NoInsights
  /\ insights' = GenerateInsightsOf(batch, predictions)
  /\ UNCHANGED << batch, predictions, recommendations >>

\* generateRecommendations(tracks, predictions)
GenerateRecommendations ==
  /\ ~recommendations.returned
  /\ recommendations' =
       [returned |-> TRUE, list |-> GenerateRecommendationsOf(batch, predictions)]
  /\ UNCHANGED << batch, predictions, insights >>

NextInsights ==
  \/ GenerateInsights /\ UNCHANGED << serverVars, trainerVars, codecVars, configVars, mainVars >>

NextRecommendations ==
  \/ GenerateRecommendations /\ UNCHANGED << serverVars, trainerVars, codecVars, configVars, mainVars >>

(***************************************************************************)
(* CSVTrainer.trackFeaturesToVector on feature records that lack fields.   *)
(***************************************************************************)
\* The position of a field in the vector.
IndexOf(f) == CHOOSE i \in 1..Len(Fields) : Fields[i] = f

\* A record whose fields all differ, and one that holds zeros.
FeaturesDistinct == [f \in FieldSet |-> 10 * IndexOf(f)]

FeaturesWithZeros ==
  [f \in FieldSet |-> IF f \in {"key", "mode", "tempo", "month"} THEN 0 ELSE Unit + IndexOf(f)]

RECURSIVE SubsetsUpTo(_, _)
SubsetsUpTo(S, k) ==
  IF k = 0 THEN { {} }
  ELSE LET smaller == SubsetsUpTo(S, k - 1)
       IN smaller \cup { T \cup {x} : T \in smaller, x \in S }

\* The sets of absent fields: at most MaxAbsent fields absent, or at most
\* MaxAbsent fields present.
AbsentSets ==
  SubsetsUpTo(FieldSet, MaxAbsent) \cup { FieldSet \ T : T \in SubsetsUpTo(FieldSet, MaxAbsent) }

FeatureRecords ==
  { [f \in FieldSet \ absent |-> full[f]] :
      full \in {FeaturesDistinct, FeaturesWithZeros}, absent \in AbsentSets }

NoVector == <<>>

CodecIdle ==
  /\ features = NoPayload
  /\ vector = NoVector

InitCodec ==
  /\ features \in FeatureRecords
  /\ vector = NoVector

\* A call of trackFeaturesToVector(features).
VectorizeFeatures ==
  /\ vector = NoVector
  /\ vector' = TrackFeaturesToVector(features)
  /\ UNCHANGED features

NextCodec ==
  \/ VectorizeFeatures /\ UNCHANGED << serverVars, trainerVars, insightVars, configVars, mainVars >>

(***************************************************************************)
(* Configuration loading (src/src/config/index.ts) and validateConfig.     *)
(* Fractional settings are fixed-point (Unit stands for 1.0).              *)
(***************************************************************************)
\* An environment variable: unset, or set to a value.
EnvUnset(v) == [set |-> FALSE, value |-> v]

EnvSet(v) == [set |-> TRUE, value |-> v]

\* parseNumber(process.env.X, fallback)
ParseNumber(e, fallback) == IF e.set THEN e.value ELSE fallback

\* process.env.X || fallback
OrDefault(e, fallback) == IF e.set /\ e.value # "" THEN e.value ELSE fallback

Environments ==
  [SPOTIFY_CLIENT_ID : { EnvUnset(""), EnvSet(""), EnvSet("your_client_id") },
   SPOTIFY_CLIENT_SECRET : { EnvUnset(""), EnvSet(""), EnvSet("your_secret") },
   SPOTIFY_REDIRECT_URI : { EnvUnset(""), EnvSet("https://example.com/callback"),
                            EnvSet("not a uri") },
   PORT : { EnvUnset(0), EnvSet(8080), EnvSet(0), EnvSet(70000) },
   MODEL_DROPOUT : { EnvUnset(0), EnvSet(500), EnvSet(950) },
   DATA_TRAIN_SPLIT : { EnvUnset(0), EnvSet(50) }]

\* The config object of config/index.ts.
BuildConfig(e) ==
  [model |-> [inputDim |-> 20, embedDim |-> 512, numLayers |-> 6, numHeads |-> 8,
              hiddenDim |-> 2048, dropout |-> ParseNumber(e.MODEL_DROPOUT, 100),
              maxSequenceLength |-> 100],
   training |-> [batchSize |-> 32, numEpochs |-> 100, learningRate |-> 1,
                 weightDecay |-> 10, patience |-> 10, gradientClip |-> Unit],
   data |-> [sequenceLength |-> 50, trainSplit |-> ParseNumber(e.DATA_TRAIN_SPLIT, 800),
             minTracksPerSession |-> 10],
   spotify |-> [clientId |-> OrDefault(e.SPOTIFY_CLIENT_ID, ""),
                clientSecret |-> OrDefault(e.SPOTIFY_CLIENT_SECRET, ""),
                redirectUri |-> OrDefault(e.SPOTIFY_REDIRECT_URI,
                                          "http://localhost:8080/callback")],
   api |-> [port |-> ParseNumber(e.PORT, 8080), host |-> "0.0.0.0",
            corsOrigins |-> << "http://localhost:3000", "http://localhost:8080" >>]]

\* Joi.string().required(): a string, and not the empty one.
JoiString(s) == s # ""

\* Joi.string().uri().required()
JoiUri(s) ==
  /\ JoiString(s)
  /\ s \in { "http://localhost:8080/callback", "https://example.com/callback" }

\* Joi.number().[integer().]min(lo).max(hi).required()
JoiNumber(x, lo, hi) == x >= lo /\ x <= hi

JoiAtLeast(x, lo) == x >= lo

\* validateConfig: TRUE when it returns, FALSE when it throws.
ValidateConfig(c) ==
  /\ JoiAtLeast(c.model.inputDim, 1) /\ JoiAtLeast(c.model.embedDim, 1)
  /\ JoiNumber(c.model.numLayers, 1, 20) /\ JoiNumber(c.model.numHeads, 1, 16)
  /\ JoiAtLeast(c.model.hiddenDim, 1) /\ JoiNumber(c.model.dropout, 0, 900)
  /\ JoiNumber(c.model.maxSequenceLength, 1, 1000)
  /\ JoiNumber(c.training.batchSize, 1, 1000) /\ JoiAtLeast(c.training.numEpochs, 1)
  /\ JoiNumber(c.training.learningRate, 0, Unit)
  /\ JoiNumber(c.training.weightDecay, 0, Unit)
  /\ JoiAtLeast(c.training.patience, 1) /\ JoiAtLeast(c.training.gradientClip, 0)
  /\ JoiNumber(c.data.sequenceLength, 1, 200) /\ JoiNumber(c.data.trainSplit, 100, 900)
  /\ JoiAtLeast(c.data.minTracksPerSession, 1)
  /\ JoiString(c.spotify.clientId) /\ JoiString(c.spotify.clientSecret)
  /\ JoiUri(c.spotify.redirectUri)
  /\ JoiNumber(c.api.port, 1, 65535) /\ JoiString(c.api.host)
  /\ \A i \in 1..Len(c.api.corsOrigins) : JoiString(c.api.corsOrigins[i])

NoEnv ==
  [SPOTIFY_CLIENT_ID |-> EnvUnset(""), SPOTIFY_CLIENT_SECRET |-> EnvUnset(""),
   SPOTIFY_REDIRECT_URI |-> EnvUnset(""), PORT |-> EnvUnset(0),
   MODEL_DROPOUT |-> EnvUnset(0), DATA_TRAIN_SPLIT |-> EnvUnset(0)]

ConfigIdle ==
  /\ env = NoEnv
  /\ config = BuildConfig(NoEnv)
  /\ cpc = "start"

InitConfig ==
  /\ env \in Environments
  /\ config = BuildConfig(NoEnv)
  /\ cpc = "start"

\* The module body of config/index.ts: build the object, validate it, exit
\* the process if validateConfig throws.
LoadConfig ==
  /\ cpc = "start"
  /\ config' = BuildConfig(env)
  /\ cpc' = IF ValidateConfig(BuildConfig(env)) THEN "loaded" ELSE "exited"
  /\ UNCHANGED env

NextConfig ==
  \/ LoadConfig /\ UNCHANGED << serverVars, trainerVars, insightVars, codecVars, mainVars >>

(***************************************************************************)
(* main: directories, the model file, loadModel, start.                    *)
(***************************************************************************)
Directories == << "logs", "models", "data" >>

DirectorySet == { Directories[i] : i \in 1..Len(Directories) }

\* The pc after the existsSync(modelPath) test, with the load not awaited.
AfterCheckNotAwaited(exists) == "start"

\* The pc after the existsSync(modelPath) test: `await api.loadModel(...)`
\* or the warning.
AfterCheck(exists) == IF exists THEN "loading" ELSE "start"

\* The model file is in the models directory.
InitMain ==
  /\ mainPc = "dirs"
  /\ dirs \in SUBSET DirectorySet
  /\ modelPathExists \in { e \in BOOLEAN : e => "models" \in dirs }
  /\ startCalled = FALSE

\* The forEach over the directories: mkdirSync creates the missing ones in
\* order, or throws at one of them and main's catch exits.
EnsureDirectories ==
  /\ alive
  /\ mainPc = "dirs"
  /\ \/ /\ dirs' = DirectorySet
        /\ mainPc' = "check"
        /\ alive' = alive
     \/ \E k \in 1..Len(Directories) :
          /\ Directories[k] \notin dirs
          /\ dirs' = dirs \cup { Directories[i] : i \in 1..(k - 1) }
          /\ mainPc' = "exited"
          /\ alive' = FALSE
  /\ UNCHANGED << model, loadedInsts, nextInst, loadCall, listening, forwards, reqs,
                  probe, everLoaded, modelFile, tensorHeap, modelPathExists, startCalled >>

\* new VibeChainAPI(config), then the model file test: loadModel is called
\* and awaited, or a warning is logged.
CheckModel ==
  /\ alive
  /\ mainPc = "check"
  /\ IF modelPathExists THEN LoadModelBegin ELSE UNCHANGED serverVars
  /\ mainPc' = AfterCheck(modelPathExists)
  /\ UNCHANGED << dirs, modelPathExists, startCalled >>

\* `await api.loadModel(modelPath)` returns: loadModel never rejects.
AwaitLoad ==
  /\ mainPc = "loading"
  /\ LoadModelEnd
  /\ mainPc' = "start"
  /\ UNCHANGED << dirs, modelPathExists, startCalled >>

\* What app.listen can do: call back, or emit 'error' (port in use).
ListenOutcomes == {"listening", "error"}

\* `await api.start()`: the server listens, or the 'error' event has no
\* listener and the uncaughtException handler exits.
CallStart ==
  /\ alive
  /\ mainPc = "start"
  /\ startCalled' = TRUE
  /\ \E o \in ListenOutcomes :
       IF o = "listening"
       THEN Start /\ mainPc' = "running"
       ELSE /\ mainPc' = "exited"
            /\ alive' = FALSE
            /\ UNCHANGED << model, loadedInsts, nextInst, loadCall, listening, forwards,
                            reqs, probe, everLoaded, modelFile, tensorHeap >>
  /\ UNCHANGED << dirs, modelPathExists >>

NextMain ==
  \/ EnsureDirectories /\ UNCHANGED << trainerVars, insightVars, codecVars, configVars >>
  \/ CheckModel /\ UNCHANGED << trainerVars, insightVars, codecVars, configVars >>
  \/ AwaitLoad /\ UNCHANGED << trainerVars, insightVars, codecVars, configVars >>
  \/ CallStart /\ UNCHANGED << trainerVars, insightVars, codecVars, configVars >>

\* main is not running.
MainIdle ==
  /\ mainPc = "none"
  /\ dirs = {}
  /\ modelPathExists = FALSE
  /\ startCalled = FALSE

\* The server alone: the trainer never runs.
InitServerSpec ==
  InitServer /\ TrainerIdle /\ InsightsIdle /\ CodecIdle /\ ConfigIdle /\ MainIdle

\* The trainer alone: the server is constructed and never used.
InitTrainerSpec ==
  /\ InitTrainer /\ InitServer /\ forwards = FALSE /\ modelFile = "const"
  /\ InsightsIdle /\ CodecIdle /\ ConfigIdle /\ MainIdle

SpecServer == InitServerSpec /\ [][NextServer]_vars

SpecTrainer == InitTrainerSpec /\ [][NextTrainer]_vars

SpecAnalyze == InitServerSpec /\ [][NextAnalyze]_vars

SpecAnalyzeFair == SpecAnalyze /\ \A r \in 1..MaxReqs : WF_vars(Settles(r))

SpecFirstRow == InitServerSpec /\ [][NextFirstRow]_vars

InitMainSpec ==
  InitMain /\ InitServer /\ TrainerIdle /\ InsightsIdle /\ CodecIdle /\ ConfigIdle

\* main runs to its end: every step of main is a synchronous statement or
\* the continuation of a settled promise.
SpecMain == InitMainSpec /\ [][NextMain]_vars /\ WF_vars(NextMain)

InitInsightsSpec ==
  /\ InitInsights /\ InitServer /\ forwards = FALSE /\ modelFile = "const"
  /\ TrainerIdle /\ CodecIdle /\ ConfigIdle /\ MainIdle

SpecInsights == InitInsightsSpec /\ [][NextInsights]_vars

SpecRecommendations == InitInsightsSpec /\ [][NextRecommendations]_vars

InitCodecSpec ==
  /\ InitCodec /\ InitServer /\ forwards = FALSE /\ modelFile = "const"
  /\ TrainerIdle /\ InsightsIdle /\ ConfigIdle /\ MainIdle

SpecCodec == InitCodecSpec /\ [][NextCodec]_vars

InitConfigSpec ==
  /\ InitConfig /\ InitServer /\ forwards = FALSE /\ modelFile = "const"
  /\ TrainerIdle /\ InsightsIdle /\ CodecIdle /\ MainIdle

SpecConfig == InitConfigSpec /\ [][NextConfig]_vars

(***************************************************************************)
(* The claims.                                                             *)
(***************************************************************************)

\* C1: a loadModel call that failed leaves the handle on the model that was
\* in use before the call; here for a call made while a loaded model was in
\* use: that model is still the handle afterwards.
C1_FailedLoadKeepsModel ==
  (loadCall.pc = "idle" /\ loadCall.last = "fail" /\ loadCall.before \in loadedInsts)
    => model = loadCall.before

\* C2: /health answers model_loaded = true, and /model/info answers 200, only
\* if some loadModel call completed successfully; otherwise /health answers
\* false and /model/info answers 404 'No model loaded'.  Stated for the
\* answers given while no loadModel call is in flight.
C2_ReportsLoadedOnlyAfterSuccess ==
  /\ (probe.route = "health" /\ ~probe.loading) => (probe.model_loaded => everLoaded)
  /\ (probe.route = "model/info" /\ ~probe.loading) =>
       /\ probe.status = 200 => everLoaded
       /\ probe.status # 200 => (probe.status = 404 /\ probe.error = "No model loaded")

\* C3: a POST /analyze handled while the handle is null is answered 500,
\* success = false, 'No model loaded', whatever its body, and runs no
\* vectorization or inference.
C3_NoModelAnswered500 ==
  \A r \in 1..MaxReqs :
    (reqs[r].pc # "idle" /\ reqs[r].seenModel = NoModel)
      => /\ reqs[r].pc = "done"
         /\ reqs[r].resp = Json(500, FALSE, "No model loaded")
         /\ ~reqs[r].inferred

\* C4: with a model loaded, a POST /analyze whose body fails the schema is
\* answered 400, success = false, 'Validation failed...', and runs no
\* inference (no request of the model changes the handle: see Settle).
C4_InvalidBodyAnswered400 ==
  \A r \in 1..MaxReqs :
    (reqs[r].pc # "idle" /\ reqs[r].seenModel \in loadedInsts
       /\ ~AnalyzeRequestSchema(reqs[r].body))
      => /\ reqs[r].pc = "done"
         /\ reqs[r].resp = Json(400, FALSE, "Validation failed")
         /\ ~reqs[r].inferred
         /\ reqs[r].inputTensor = NoTensor

\* C5: with fewer than 2 examples train() fails before the model is built:
\* the build step and model.train never run on fewer than 2 examples.
C5_FailsFastBelowTwoExamples ==
  ((\E i \in 1..Len(log) : log[i].step = "build") \/ fitCall.called)
    => Len(examples) >= 2

\* C6: whenever model.train is invoked, the training set and the validation
\* set are both non-empty.
C6_BothSetsNonEmpty ==
  fitCall.called => (fitCall.nTrain >= 1 /\ fitCall.nValidation >= 1)

\* The adjacent positions of one session whose two tracks carry features.
PairPositions ==
  { p \in (1..Len(sessions)) \X (1..MaxCorpus) :
      /\ p[2] < Len(sessions[p[1]])
      /\ sessions[p[1]][p[2]].hasFeatures
      /\ sessions[p[1]][p[2] + 1].hasFeatures }

\* Session order, then position order.
Before(p, q) == p[1] < q[1] \/ (p[1] = q[1] /\ p[2] < q[2])

Rank(p) == 1 + Cardinality({ q \in PairPositions : Before(q, p) })

\* C7: once prepareTrainingData has run, the examples are exactly the
\* adjacent positions of one session whose two tracks carry features, in
\* session order then position order; the input is the current track's
\* vector and the label the next track's (valence, energy, danceability);
\* no track without features made the extraction fail; a lone 3-track
\* session with 2 feature-less tracks yields at most 1 example.
C7_PairExtraction ==
  Len(log) >= 2 =>
    /\ log[2].cause # "TypeError"
    /\ Len(examples) = Cardinality(PairPositions)
    /\ \A p \in PairPositions :
         LET cur == sessions[p[1]][p[2]]
             next == sessions[p[1]][p[2] + 1]
         IN /\ examples[Rank(p)].ok
            /\ examples[Rank(p)].input = TrackFeaturesToVector(cur.features)
            /\ examples[Rank(p)].label =
                 << next.features["valence"], next.features["energy"],
                    next.features["danceability"] >>
    /\ (Len(sessions) = 1 /\ Len(sessions[1]) = 3
          /\ Cardinality({ i \in 1..3 : ~sessions[1][i].hasFeatures }) = 2)
         => Len(examples) <= 1

\* C7's case: two sessions, an adjacent pair dropped for a track without
\* features, and an example kept.
C7_Witness ==
  /\ Len(log) >= 2
  /\ Len(sessions) >= 2
  /\ \E s \in 1..Len(sessions) : \E i \in 1..(Len(sessions[s]) - 1) :
       sessions[s][i].hasFeatures /\ ~sessions[s][i + 1].hasFeatures
  /\ Len(examples) >= 1

\* C8: after a successful prepareTrainingData with N examples and fraction
\* f, the validation set has floor(N*f) rows and the training set the other
\* N - floor(N*f); the training rows are the first examples and the
\* validation rows the last ones, each in the original order.
C8_SplitIsPrefixAndSuffix ==
  (Len(log) >= 2 /\ log[2].result = "ok") =>
    LET n == Len(examples)
        nt == Len(trainData.inputs)
        nv == Len(validationData.inputs)
    IN /\ 10 * nv <= n * validationSplit
       /\ n * validationSplit < 10 * (nv + 1)
       /\ nt = n - nv
       /\ Len(trainData.labels) = nt
       /\ Len(validationData.labels) = nv
       /\ \A i \in 1..nt : /\ trainData.inputs[i] = examples[i].input
                            /\ trainData.labels[i] = examples[i].label
       /\ \A i \in 1..nv : /\ validationData.inputs[i] = examples[nt + i].input
                            /\ validationData.labels[i] = examples[nt + i].label

\* C8's case: a split with both parts non-empty and of different sizes.
C8_Witness ==
  /\ Len(log) >= 2 /\ log[2].result = "ok"
  /\ Len(validationData.inputs) >= 1
  /\ Len(trainData.inputs) > Len(validationData.inputs)

\* C9: the steps of train() run in the order load, prepare, build, train,
\* save, report; a step runs only after every earlier one succeeded; a
\* failed step is the last one and train() throws; train() returns only
\* after all six succeeded.
C9_StepsInOrder ==
  /\ Len(log) <= Len(StepOrder)
  /\ \A i \in 1..Len(log) : log[i].step = StepOrder[i]
  /\ \A i \in 1..(Len(log) - 1) : log[i].result = "ok"
  /\ fitCall.called => (Len(log) >= 3 /\ log[3].result = "ok")
  /\ (Len(log) >= 1 /\ log[Len(log)].result = "threw")
       => (outcome = "threw" /\ tpc = "failed")
  /\ outcome = "threw" => (Len(log) >= 1 /\ log[Len(log)].result = "threw")
  /\ outcome = "ok" => (Len(log) = Len(StepOrder) /\ log[Len(log)].result = "ok")

\* C9's case: the model was saved, and the report then failed.
C9_Witness ==
  /\ Len(log) = Len(StepOrder)
  /\ log[5].result = "ok"
  /\ outcome = "threw"

\* C10: when train() has returned or thrown, no tensor created in
\* prepareTrainingData is still live.
C10_AllTensorsDisposed ==
  outcome # "running" => \A t \in TensorNames : tensors[t] # "live"

\* The requests whose performAnalysis call created its input tensor and has
\* returned or thrown.
Returned == { r \in 1..MaxReqs : reqs[r].pc \in {"done", "crashed"} /\ reqs[r].inferred }

\* C11: once performAnalysis has returned or thrown after creating the input
\* tensor, the input tensor has been disposed exactly once, and so has the
\* prediction tensor if predict produced one; until then neither is disposed.
C11_TensorsDisposedOnce ==
  \A r \in 1..MaxReqs :
    LET it == reqs[r].inputTensor
        pt == reqs[r].predictionTensor
    IN /\ r \in Returned =>
            /\ it # NoTensor
            /\ tensorHeap[it].state = "disposed" /\ tensorHeap[it].disposals = 1
            /\ pt # NoTensor =>
                 (tensorHeap[pt].state = "disposed" /\ tensorHeap[pt].disposals = 1)
       /\ reqs[r].pc \in {"predict", "data"} =>
            /\ tensorHeap[it].state = "live" /\ tensorHeap[it].disposals = 0
            /\ pt # NoTensor =>
                 (tensorHeap[pt].state = "live" /\ tensorHeap[pt].disposals = 0)

\* One call whose predict raised and one call that returned its predictions.
C11_Witness ==
  \E r, q \in Returned :
    /\ reqs[r].predictionTensor = NoTensor
    /\ reqs[q].predictionTensor # NoTensor /\ reqs[q].resp.status = 200

\* The requests answered with their predictions.
Succeeded == { r \in 1..MaxReqs : reqs[r].pc = "done" /\ reqs[r].resp.success }

\* C17: every successful analysis reports confidence_scores mood = 0.85 and
\* next_track = 0.80, whatever the tracks and whatever the model returned.
C17_ConfidenceIsConstant ==
  \A r \in Succeeded :
    reqs[r].resp.data.confidence_scores = [mood |-> 850, next_track |-> 800]

\* Two successful analyses of different batches with different model output.
C17_Witness ==
  \E r, q \in Succeeded :
    /\ reqs[r].body.tracks # reqs[q].body.tracks
    /\ reqs[r].resp.data.mood_prediction # reqs[q].resp.data.mood_prediction

\* C18: every successful analysis returns a pattern_embedding of the same
\* number of components, whatever the number of tracks of the request.
C18_EmbeddingHasOneLength ==
  \A r, q \in Succeeded :
    Len(reqs[r].resp.data.pattern_embedding) = Len(reqs[q].resp.data.pattern_embedding)

\* The tensors created so far.
Created == { t \in DOMAIN tensorHeap : tensorHeap[t].state # "none" }

\* C20: however concurrent /analyze requests interleave at their awaits, a
\* tensor is read and disposed only by the request that created it, each
\* response is the prediction of the model the request saw on the request's
\* own tracks, and no step of an analyze request changes the model handle.
C20_RequestsAreIsolated ==
  /\ [](/\ \A t \in Created : tensorHeap[t].users = {tensorHeap[t].owner}
        /\ \A r \in 1..MaxReqs :
             /\ reqs[r].inputTensor # NoTensor => tensorHeap[reqs[r].inputTensor].owner = r
             /\ reqs[r].predictionTensor # NoTensor =>
                  tensorHeap[reqs[r].predictionTensor].owner = r
        /\ \A r \in Succeeded :
             reqs[r].resp.data =
               Predictions(Predict(modelFile, FeatureVectors(reqs[r].body.tracks)),
                           Len(reqs[r].body.tracks)))
  /\ [][reqs' # reqs => (model' = model /\ loadedInsts' = loadedInsts)]_vars

\* Two requests in flight together, each past its predict call, on
\* different batches.
C20_Witness ==
  \E r, q \in 1..MaxReqs :
    /\ r # q
    /\ reqs[r].pc = "data" /\ reqs[q].pc = "data"
    /\ reqs[r].body.tracks # reqs[q].body.tracks

\* generateInsights has returned.
InsightsReturned == insights # NoInsights

\* A batch whose tracks all have valence 0.9 and energy 0.85.
HappyBatch ==
  /\ Len(batch) >= 1
  /\ \A i \in 1..Len(batch) : batch[i].valence = 900 /\ batch[i].energy = 850

Contains(seq, x) == \E i \in 1..Len(seq) : seq[i] = x

\* C12 as claimed: for a batch of tracks of valence 0.9 and energy 0.85 the
\* mood insight is one of the two uplifting sentences, whatever prediction
\* is passed in.
C12_HappyBatchAlwaysUplifting ==
  (InsightsReturned /\ HappyBatch) =>
    insights.mood \in
      { "Your music taste consistently leans towards positive, uplifting tracks.",
        "While your recent tracks show varied emotions, your listening pattern suggests a preference for uplifting music" }

\* C12, amended: for such a batch the mood insight follows the predicted
\* valence: above 0.7 it is the 'consistently positive, uplifting' sentence,
\* below 0.3 the 'shift towards contemplative' sentence, otherwise the
\* balanced sentence; it is never the 'gravitate towards melancholic' one.
C12_HappyBatchFollowsPrediction ==
  (InsightsReturned /\ HappyBatch) =>
    LET pv == predictions.mood_prediction.valence
    IN /\ pv > 700 =>
            insights.mood =
              "Your music taste consistently leans towards positive, uplifting tracks."
       /\ pv < 300 =>
            insights.mood =
              "Your model predicts a shift towards more contemplative music choices"
       /\ (pv >= 300 /\ pv <= 700) =>
            insights.mood = "Your music taste spans a balanced emotional range"
       /\ insights.mood # "You gravitate towards more melancholic or introspective music."

\* The spec's scenario: 20 such tracks, and a prediction of high valence.
C12_Witness ==
  /\ InsightsReturned /\ HappyBatch
  /\ Len(batch) = 20
  /\ predictions.mood_prediction.valence > 700

\* C13: a batch whose mean skip_rate is below 0.1 gets the 'rarely skip'
\* sentence and not the 'skip tracks frequently' one, and no batch gets both.
C13_RarelySkip ==
  InsightsReturned =>
    /\ Sum(Column(batch, "skip_rate")) * 10 < Len(batch) * Unit =>
         /\ Contains(insights.patterns, "You rarely skip tracks")
         /\ ~Contains(insights.patterns, "You tend to skip tracks frequently")
    /\ ~(/\ Contains(insights.patterns, "You rarely skip tracks")
         /\ Contains(insights.patterns, "You tend to skip tracks frequently"))

\* The spec's scenario: several tracks of mean skip_rate 0.05.
C13_Witness ==
  /\ InsightsReturned
  /\ Len(batch) >= 2
  /\ Sum(Column(batch, "skip_rate")) * 20 = Len(batch) * Unit

\* C15: generateDiversityInsight returns the same sentence for every
\* reordering of the batch (batches of up to MaxBatch tracks).
C15_DiversityIgnoresOrder ==
  (InsightsReturned /\ Len(batch) <= MaxBatch) =>
    \A p \in Permutations(1..Len(batch)) :
      GenerateDiversityInsight([i \in 1..Len(batch) |-> batch[p[i]]]) = insights.diversity

\* A batch of three different tracks that is not in the lowest bucket.
C15_Witness ==
  /\ InsightsReturned
  /\ Len(batch) = 3
  /\ Cardinality({ batch[i] : i \in 1..3 }) = 3
  /\ insights.diversity # StrongConsistency

\* The field order the vector is claimed to have.
CanonicalOrder ==
  << "danceability", "energy", "key", "loudness", "mode", "speechiness",
     "acousticness", "instrumentalness", "liveness", "valence", "tempo",
     "duration_ms", "time_signature", "hour_of_day", "day_of_week", "month",
     "is_weekend", "skip_rate", "repeat_count", "playlist_position" >>

\* C16: for a feature record with any subset of the 20 fields present,
\* trackFeaturesToVector returns 20 numbers in the canonical field order:
\* position i holds the value of the i-th field over a non-zero divisor, and
\* 0 when the field is absent; the call returns for every record.
C16_VectorOfTwentyInOrder ==
  /\ vector # NoVector =>
       /\ Len(vector) = 20
       /\ \A i \in 1..20 :
            LET f == CanonicalOrder[i]
            IN /\ vector[i][2] > 0
               /\ f \notin DOMAIN features => vector[i][1] = 0
               /\ f \in DOMAIN features => vector[i][1] = features[f]
  /\ vector = NoVector => ENABLED VectorizeFeatures

\* A record with only two fields present, vectorized.
C16_Witness ==
  /\ vector # NoVector
  /\ Cardinality(DOMAIN features) = 2
  /\ \E i \in 1..20 : vector[i][1] # 0

\* C19: with no variable set in the environment (no .env file), the
\* default configuration passes validateConfig and the process does not
\* exit while the configuration is loaded.
C19_DefaultConfigAccepted ==
  (cpc # "start" /\ env = NoEnv) => cpc = "loaded"

\* The batch mean of a field is above (below) the fixed-point number c.
MeanAbove(f, c) == Sum(Column(batch, f)) > c * Len(batch)

MeanBelow(f, c) == Sum(Column(batch, f)) < c * Len(batch)

\* C21: generateMoodInsight returns one of five sentences: predicted valence
\* > 0.7 gives the 'consistently' uplifting sentence iff the batch mean
\* valence is > 0.7 and the 'varied emotions' uplifting one otherwise;
\* predicted valence < 0.3 gives the 'gravitate' sentence iff the batch mean
\* is < 0.3 and the 'shift' one otherwise; a predicted valence in [0.3, 0.7]
\* gives the balanced sentence whatever the batch.
C21_MoodSentence ==
  InsightsReturned =>
    LET pv == predictions.mood_prediction.valence
    IN insights.mood =
         CASE pv > 700 /\ MeanAbove("valence", 700) ->
                "Your music taste consistently leans towards positive, uplifting tracks."
           [] pv > 700 /\ ~MeanAbove("valence", 700) ->
                "While your recent tracks show varied emotions, your listening pattern suggests a preference for uplifting music"
           [] pv < 300 /\ MeanBelow("valence", 300) ->
                "You gravitate towards more melancholic or introspective music."
           [] pv < 300 /\ ~MeanBelow("valence", 300) ->
                "Your model predicts a shift towards more contemplative music choices"
           [] pv >= 300 /\ pv <= 700 ->
                "Your music taste spans a balanced emotional range"

\* A predicted valence of exactly 0.7 on a batch of mean valence above 0.7.
C21_Witness ==
  /\ InsightsReturned
  /\ predictions.mood_prediction.valence = 700
  /\ MeanAbove("valence", 700)
  /\ Len(batch) >= 2

\* The batch standard deviation of energy is below 0.2: the variance
\* (n * sum of squares - square of the sum) / n^2 is below 0.04.
EnergyDeviationBelowFifth ==
  LET xs == Column(batch, "energy")
      n == Len(batch)
  IN n * Sum([i \in 1..n |-> xs[i] * xs[i]]) - Sum(xs) * Sum(xs) < (200 * n) * (200 * n)

\* C22: generateEnergyInsight classifies by the batch mean energy: above 0.7
\* the 'consistently high' sentence iff the standard deviation is below 0.2
\* and the 'high but varied' one otherwise; below 0.3 the calm sentence; in
\* [0.3, 0.7] the moderate sentence, 'increasing' iff the predicted energy
\* is strictly greater than the mean.  The prediction matters in the
\* moderate branch only.
C22_EnergySentence ==
  InsightsReturned =>
    LET pe == predictions.mood_prediction.energy
    IN /\ insights.energy =
            CASE MeanAbove("energy", 700) /\ EnergyDeviationBelowFifth ->
                   "You consistently prefer high-energy, danceable music."
              [] MeanAbove("energy", 700) /\ ~EnergyDeviationBelowFifth ->
                   "While you enjoy high-energy music, you also appreciate variety in intensity"
              [] MeanBelow("energy", 300) ->
                   "You gravitate towards calmer, more relaxed tracks."
              [] ~MeanAbove("energy", 700) /\ ~MeanBelow("energy", 300)
                   /\ pe * Len(batch) > Sum(Column(batch, "energy")) ->
                   "Your energy preferences are moderate and balanced. [...] increasing energy levels."
              [] ~MeanAbove("energy", 700) /\ ~MeanBelow("energy", 300)
                   /\ pe * Len(batch) <= Sum(Column(batch, "energy")) ->
                   "Your energy preferences are moderate and balanced. [...] decreasing energy levels."
       /\ (MeanAbove("energy", 700) \/ MeanBelow("energy", 300)) =>
            \A other \in InsightPredictions :
              GenerateEnergyInsight(batch, other) = insights.energy

\* A moderate batch whose mean energy equals the predicted energy.
C22_Witness ==
  /\ InsightsReturned
  /\ Len(batch) >= 2
  /\ predictions.mood_prediction.energy * Len(batch) = Sum(Column(batch, "energy"))

\* The square root of the radicand of a column's standard deviation, rounded
\* down and rounded up.
RootFloor(tracks, f) == ISqrt(StandardDeviation(Column(tracks, f)).radicand)

RootCeil(tracks, f) ==
  LET r == StandardDeviation(Column(tracks, f)).radicand
  IN IF ISqrt(r) * ISqrt(r) = r THEN ISqrt(r) ELSE ISqrt(r) + 1

FiveFeatures == { "danceability", "energy", "valence", "acousticness", "instrumentalness" }

\* The mean d of the five standard deviations is certainly above c / certainly
\* at most c: n * 5 * d lies between the sum of the rounded-down roots and the
\* sum of the rounded-up roots.
DiversityAbove(tracks, c) ==
  RootFloor(tracks, "danceability") + RootFloor(tracks, "energy")
    + RootFloor(tracks, "valence") + RootFloor(tracks, "acousticness")
    + RootFloor(tracks, "instrumentalness") > c * 5 * Len(tracks)

DiversityAtMost(tracks, c) ==
  RootCeil(tracks, "danceability") + RootCeil(tracks, "energy")
    + RootCeil(tracks, "valence") + RootCeil(tracks, "acousticness")
    + RootCeil(tracks, "instrumentalness") <= c * 5 * Len(tracks)

\* The batch with the features that are not among the five replaced.
OtherFeaturesChanged ==
  [i \in 1..Len(batch) |->
     [f \in FieldSet |-> IF f \in FiveFeatures THEN batch[i][f] ELSE (i * 300) % Unit]]

\* C23: generateDiversityInsight returns the 'highly diverse' sentence iff
\* the mean d of the standard deviations of the five features is above 0.25,
\* the 'moderately diverse' one iff 0.15 < d <= 0.25 and the 'consistency'
\* one iff d <= 0.15; changing any other feature of the tracks changes
\* nothing.
C23_DiversityBuckets ==
  InsightsReturned =>
    /\ insights.diversity =
         CASE DiversityAbove(batch, 250) -> HighlyDiverse
           [] DiversityAtMost(batch, 250) /\ DiversityAbove(batch, 150) -> ModeratelyDiverse
           [] DiversityAtMost(batch, 150) -> StrongConsistency
    /\ GenerateDiversityInsight(OtherFeaturesChanged) = insights.diversity

\* A batch of different tracks in the middle bucket.
C23_Witness ==
  /\ InsightsReturned
  /\ Len(batch) >= 2
  /\ DiversityAtMost(batch, 250) /\ DiversityAbove(batch, 150)
  /\ OtherFeaturesChanged # batch

\* C26: generateRecommendations includes the 'Challenge yourself' suggestion
\* if and only if the batch is in the 'consistent' bucket of
\* generateDiversityInsight (mean of the five standard deviations <= 0.15).
C26_ChallengeIffConsistent ==
  recommendations.returned =>
    (Contains(recommendations.list,
              "Challenge yourself by exploring a new genre outside your comfort zone this week.")
       <=> DiversityAtMost(batch, 150))

\* The sentences each rule block can contribute, in block order.
BlockSentences ==
  << { "You tend to skip tracks frequently", "You rarely skip tracks" },
     { "You frequently replay songs" },
     { "You show a preference for music in " \o KeyNames[k] : k \in 1..Len(KeyNames) },
     { "Your tempo preferences are consistent, clustering around " \o r :
         r \in { "slow (60-80)", "moderate (80-110)", "upbeat (110-140)", "fast (140+)" } }
       \cup { "Your tempo preferences vary widely" },
     { "You strongly prefer acoustic and organic-sounding music",
       "You lean towards electronic and heavily produced music" },
     { "Your mood preferences are highly predictable" },
     { "Your listening patterns are highly consistent" } >>

\* The block a sentence comes from, 0 for the fallback.
BlockOf(sentence) ==
  IF \E k \in 1..Len(BlockSentences) : sentence \in BlockSentences[k]
  THEN CHOOSE k \in 1..Len(BlockSentences) : sentence \in BlockSentences[k]
  ELSE 0

\* C24: the patterns list holds the contributions of the rule blocks in the
\* order skip, repeat, key, tempo, acoustic, mood confidence, next-track
\* confidence, at most one string per block, and it is the fallback string
\* alone exactly when no block contributed.
C24_PatternsInBlockOrder ==
  InsightsReturned =>
    LET p == insights.patterns
        contributed ==
          \/ SkipPattern(Mean(Column(batch, "skip_rate"))) # <<>>
          \/ RepeatPattern(Mean(Column(batch, "repeat_count"))) # <<>>
          \/ KeyPattern(AnalyzeKeyDistribution(batch)) # <<>>
          \/ TempoPattern(AnalyzeTempoPatterns(batch)) # <<>>
          \/ AcousticPattern(AnalyzeAcousticPreference(batch)) # <<>>
          \/ MoodConfidencePattern(predictions) # <<>>
          \/ NextTrackConfidencePattern(predictions) # <<>>
    IN /\ Len(p) >= 1
       /\ (p = << Fallback >>) <=> ~contributed
       /\ contributed =>
            /\ \A i \in 1..Len(p) : BlockOf(p[i]) \in 1..Len(BlockSentences)
            /\ \A i, j \in 1..Len(p) : i < j => BlockOf(p[i]) < BlockOf(p[j])

\* Every block contributed.
C24_Witness ==
  /\ InsightsReturned
  /\ Len(insights.patterns) = Len(BlockSentences)

\* The bins round(key * 11) can be: b - 1/2 <= 11 key < b + 1/2.
Bins(track) ==
  { b \in 0..11 : 2 * b * Unit - Unit <= 22 * track.key /\ 22 * track.key < 2 * b * Unit + Unit }

\* How many tracks of the batch fall in each bin.
BinCount ==
  [b \in 0..11 |-> Cardinality({ i \in 1..Len(batch) : b \in Bins(batch[i]) })]

\* The lowest bin among those of the largest count in a histogram.
ModeBin(count) ==
  CHOOSE b \in 0..11 :
    /\ \A c \in 0..11 : count[c] <= count[b]
    /\ \A c \in 0..(b - 1) : count[c] < count[b]

\* C25: every track falls in exactly one of the 12 bins round(key * 11);
\* the key sentence is in the list iff the largest bin count is strictly
\* more than 20% of the number of tracks, and it names the lowest bin with
\* that count.
C25_DominantKey ==
  InsightsReturned =>
    LET count == BinCount
        mode == ModeBin(count)
    IN /\ \A i \in 1..Len(batch) : Cardinality(Bins(batch[i])) = 1
       /\ \A k \in 1..Len(KeyNames) :
            Contains(insights.patterns, "You show a preference for music in " \o KeyNames[k])
              <=> (5 * count[mode] > Len(batch) /\ k = mode + 1)

\* Ten tracks, two in each of five keys: the largest count is 20% exactly.
C25_Witness ==
  /\ InsightsReturned
  /\ LET count == BinCount IN 5 * count[ModeBin(count)] = Len(batch)

\* C28: generatePatternInsights returns between 1 and 7 strings, exactly one
\* of them a tempo sentence, and never the fallback string.
C28_OneTempoSentence ==
  InsightsReturned =>
    LET p == insights.patterns
    IN /\ Len(p) \in 1..7
       /\ Cardinality({ i \in 1..Len(p) : p[i] \in BlockSentences[4] }) = 1
       /\ ~Contains(p, Fallback)

\* A batch of different tempos that gets the 'vary widely' sentence and
\* nothing from the skip, acoustic and confidence blocks.
C28_Witness ==
  /\ InsightsReturned
  /\ Contains(insights.patterns, "Your tempo preferences vary widely")
  /\ Len(insights.patterns) <= 3

\* What may follow the first track of a request.
Tails ==
  { <<>>, << TrackMid >>, << TrackEdge >>, << TrackMid, TrackEdge >>, << TrackEdge, TrackMid >> }

\* C29: for a request of n >= 1 tracks, mood_prediction and
\* next_track_prediction come from the model's output row for the first
\* track: their valence and energy are equal, arousal equals danceability,
\* and two requests with the same first track get the same two predictions,
\* whatever tracks follow and in whatever order.
C29_FirstRowOnly ==
  \A r \in Succeeded :
    LET d == reqs[r].resp.data
        ts == reqs[r].body.tracks
    IN /\ d.mood_prediction.valence = d.next_track_prediction.valence
       /\ d.mood_prediction.energy = d.next_track_prediction.energy
       /\ d.mood_prediction.arousal = d.next_track_prediction.danceability
       /\ << d.mood_prediction.valence, d.mood_prediction.energy, d.mood_prediction.arousal >>
            = ModelRow(modelFile, ToVector(ts[1]))
       /\ \A q \in Succeeded :
            reqs[q].body.tracks[1] = ts[1] =>
              /\ reqs[q].resp.data.mood_prediction = d.mood_prediction
              /\ reqs[q].resp.data.next_track_prediction = d.next_track_prediction
       /\ \A tail \in Tails :
            LET alt == Predictions(Predict(modelFile, FeatureVectors(<< ts[1] >> \o tail)),
                                   1 + Len(tail))
            IN /\ alt.mood_prediction = d.mood_prediction
               /\ alt.next_track_prediction = d.next_track_prediction

\* Two successful requests with the same first track, one of them with a
\* second track that the model maps to a different row.
C29_Witness ==
  \E r, q \in Succeeded :
    /\ reqs[r].body.tracks # reqs[q].body.tracks
    /\ reqs[r].body.tracks[1] = reqs[q].body.tracks[1]
    /\ modelFile = "echo"

\* C27: every POST /analyze eventually gets exactly one response, whatever
\* its outcome: no request stays unanswered, none is answered twice, and no
\* outcome ends the process through an unhandled rejection.
C27_EveryAnalyzeAnsweredOnce ==
  /\ \A r \in 1..MaxReqs :
       (reqs[r].pc # "idle") ~> (reqs[r].pc = "done" /\ reqs[r].sent = 1)
  /\ [](\A r \in 1..MaxReqs : reqs[r].sent <= 1 /\ reqs[r].pc # "crashed")

\* C30: in main the server listens only after the load attempt, if the
\* model file exists, has finished; main reaches api.start() whether the
\* file is absent, the load succeeded or the load failed; a failed load
\* never ends main before api.start().
C30_ListenAfterLoadAttempt ==
  /\ [](listening =>
          /\ loadCall.pc = "idle"
          /\ modelPathExists => loadCall.last \in ModelLoadOutcomes)
  /\ (mainPc = "check" /\ ~modelPathExists) ~> startCalled
  /\ (mainPc = "start" /\ loadCall.last = "ok") ~> startCalled
  /\ (mainPc = "start" /\ loadCall.last = "fail") ~> startCalled
  /\ [](loadCall.last = "fail" /\ ~startCalled => mainPc # "exited")

\* The server listens after a load that failed.
C30_Witness ==
  /\ listening
  /\ modelPathExists
  /\ loadCall.last = "fail"
  /\ model \notin loadedInsts

=============================================================================
